---- MODULE Spec2Model ----
(***************************************************************************)
(* Model of the serverless request handler of api/chat.js (sakura-chat):   *)
(* parse -> geocode -> nearby search -> candidate selection -> concurrent  *)
(* per-candidate enrichment (place details + review summary) -> reply.     *)
(*                                                                         *)
(* The specifications share the variables and the definitions of the code: *)
(*   Spec      one request through the whole handler, every collaborator   *)
(*             outcome and every interleaving of the enrichment fan-out;   *)
(*   SpecLive  Spec with the fairness that every issued fetch settles;     *)
(*   SpecSel   the selection code alone (lines 63-77) on candidate lists   *)
(*             long enough to exceed the pool cap;                         *)
(*   SpecShuffle shuffleInPlace (lines 252-257) with every random draw;    *)
(*   SpecParse parseStationGenre (lines 145-154) on every short text;      *)
(*   SpecWalk  estimateWalkMinutes (lines 233-238) on pairs of             *)
(*             destinations;                                               *)
(*   SpecReviews extractReviewTexts (lines 217-223) on review lists longer *)
(*             than its cap.                                               *)
(*                                                                         *)
(* Conventions: an optional JavaScript value is a sequence of length 0     *)
(* (undefined / null / not of the expected type) or 1 (the value).         *)
(* Ratings are kept in tenths (40 stands for 4.0).                         *)
(***************************************************************************)
EXTENDS Integers, Sequences, FiniteSets, TLC

VARIABLES pc, env, req, parsed, places, pool, chosen, member, issued,
          responses, geoOut, searchOut, walk, extract

vars == <<pc, env, req, parsed, places, pool, chosen, member, issued,
          responses, geoOut, searchOut, walk, extract>>

(***************************************************************************)
(* Bounds of the model                                                     *)
(***************************************************************************)
\* longest candidate list the places search returns in Spec
MaxPlaces == 2
\* longest candidate list in SpecSel (exceeds the pool cap)
MaxCand == 13
\* candidate lists repeat a base pattern of this many candidate kinds
CycleLen == 2
\* shuffle iterations with index i below this draw every j in 0..i; from it
\* upwards Math.random() is sampled at 1/2 only
FullDraw == 4
\* longest array given to shuffleInPlace alone (every draw is taken), and the
\* longest one with repeated entries
MaxShuffle == 6
MaxRepeat == 3

(***************************************************************************)
(* Program constants                                                       *)
(***************************************************************************)
PoolCap == 12
ShortlistMax == 5
FourPlusThreshold == 40
ReviewCap == 8
\* walking speed and the clamp of the walking time (lines 236-237)
MetersPerMinute == 80
MinWalk == 1
MaxWalk == 15
\* the review count from which the count is printed as "N+" (line 114)
ManyReviews == 10

\* longest request text given to parseStationGenre
MaxText == 5
\* destinations lie every GridStep metres, up to MaxSteps steps from zero
GridStep == 10
MaxSteps == 130
\* longest review list of a place-details result, and the length of the
\* pattern its reviews repeat
MaxReviews == 10
ReviewCycle == 3

(***************************************************************************)
(* Optional values                                                         *)
(***************************************************************************)
Absent == <<>>
Some(x) == <<x>>
IsNumber(x) == Len(x) = 1
\* JavaScript `x ?? d`
Coalesce(x, d) == IF Len(x) = 1 THEN x[1] ELSE d
Min(a, b) == IF a <= b THEN a ELSE b

(***************************************************************************)
(* Strings are sequences of one-character strings                          *)
(***************************************************************************)
Whitespace == {" ", "\t"}

RECURSIVE TrimLeft(_)
TrimLeft(s) ==
  IF s # <<>> /\ s[1] \in Whitespace THEN TrimLeft(Tail(s)) ELSE s

RECURSIVE TrimRight(_)
TrimRight(s) ==
  IF s # <<>> /\ s[Len(s)] \in Whitespace
  THEN TrimRight(SubSeq(s, 1, Len(s) - 1)) ELSE s

\* a trim that leaves the string as it is
Trim_None(s) == s

\* String.prototype.trim
Trim(s) == TrimRight(TrimLeft(s))

\* a clean-up that leaves runs of whitespace as they are
CollapseWhitespace_None(s) == s

\* text.replace(/\s+/g, " ")
RECURSIVE CollapseWhitespace(_)
CollapseWhitespace(s) ==
  IF s = <<>> THEN <<>>
  ELSE IF s[1] \in Whitespace
       THEN <<" ">> \o CollapseWhitespace(TrimLeft(s))
       ELSE <<s[1]>> \o CollapseWhitespace(Tail(s))

\* String.prototype.split on a one-character separator
RECURSIVE Split(_, _)
Split(s, sep) ==
  IF \A k \in 1..Len(s) : s[k] # sep THEN <<s>>
  ELSE LET first == CHOOSE k \in 1..Len(s) :
                      s[k] = sep /\ \A m \in 1..(k - 1) : s[m] # sep
       IN  <<SubSeq(s, 1, first - 1)>> \o Split(SubSeq(s, first + 1, Len(s)), sep)

\* Array.prototype.join with a one-character separator
RECURSIVE Join(_, _)
Join(parts, sep) ==
  IF parts = <<>> THEN <<>>
  ELSE IF Len(parts) = 1 THEN parts[1]
  ELSE parts[1] \o <<sep>> \o Join(Tail(parts), sep)

\* segments kept untrimmed
MapTrim_None(parts) == parts

\* .map((s) => s.trim())
MapTrim(parts) == [k \in 1..Len(parts) |-> Trim(parts[k])]
\* .filter(Boolean) on strings
NonEmpty(parts) == SelectSeq(parts, LAMBDA t : t # <<>>)
\* JavaScript truthiness of a value that is a string or undefined
TruthyString(v) == v # Absent /\ v[1] # <<>>
\* JavaScript `a || b` on strings
OrElse(a, b) == IF a # <<>> THEN a ELSE b

DefaultGenre == <<"restaurants">>

\* parseStationGenre (lines 145-154)
parseStationGenre(text) ==
  LET cleaned == Trim(CollapseWhitespace(text))
  IN  IF \E k \in 1..Len(cleaned) : cleaned[k] = ","
      THEN LET parts == NonEmpty(MapTrim(Split(cleaned, ",")))
           IN  [station |-> IF parts # <<>> THEN OrElse(parts[1], cleaned) ELSE cleaned,
                genre   |-> OrElse(Join(IF parts = <<>> THEN <<>> ELSE Tail(parts), " "),
                                   DefaultGenre)]
      ELSE LET parts == Split(cleaned, " ")
           IN  IF Len(parts) = 1
               THEN [station |-> parts[1], genre |-> DefaultGenre]
               ELSE [station |-> parts[1],
                     genre   |-> OrElse(Trim(Join(Tail(parts), " ")), DefaultGenre)]

(***************************************************************************)
(* Walking time (lines 233-250)                                            *)
(*                                                                         *)
(* Coordinates lie on one meridian: lat is the position along it counted   *)
(* in metres, lng is the same for all of them, so that the great-circle    *)
(* distance haversineMeters computes is the difference of the positions.   *)
(* A lat or lng that is not a number is Absent.                            *)
(***************************************************************************)
Coordinate(m) == [lat |-> Some(m), lng |-> Some(0)]

Abs(x) == IF x < 0 THEN -x ELSE x
Max(a, b) == IF a >= b THEN a ELSE b

\* the distance taken with its sign
haversineMeters_Signed(lat1, lng1, lat2, lng2) == lat2 - lat1

\* haversineMeters (lines 240-250) for two points with lng1 = lng2
haversineMeters(lat1, lng1, lat2, lng2) == Abs(lat2 - lat1)

\* rounding down instead of to the nearest integer
Round_Down(num, den) == num \div den

\* Math.round(num / den) for den > 0: the nearest integer, halves upwards
Round(num, den) == (2 * num + den) \div (2 * den)

\* an estimate that takes a missing coordinate for the origin itself
estimateWalkMinutes_Unchecked(origin, dest) == Some(MinWalk)

\* estimateWalkMinutes (lines 233-238); Absent stands for NaN
estimateWalkMinutes(origin, dest) ==
  IF origin = Absent \/ dest = Absent THEN Absent
  ELSE IF ~IsNumber(dest[1].lat) \/ ~IsNumber(dest[1].lng) THEN Absent
  ELSE LET meters == haversineMeters(origin[1].lat[1], origin[1].lng[1],
                                     dest[1].lat[1], dest[1].lng[1])
           mins   == Max(MinWalk, Round(meters, MetersPerMinute))
       IN  Some(Min(mins, MaxWalk))

\* no walking time asked for
NoWalk == [origin |-> Absent, destA |-> Absent, destB |-> Absent,
           minsA |-> Absent, minsB |-> Absent]

(***************************************************************************)
(* Candidates as the places search maps them (lines 189-196)               *)
(***************************************************************************)
\* the decimal digits of a natural number
RECURSIVE Decimal(_)
Decimal(i) ==
  LET digit == <<"0", "1", "2", "3", "4", "5", "6", "7", "8", "9">>[(i % 10) + 1]
  IN  IF i < 10 THEN <<digit>> ELSE Append(Decimal(i \div 10), digit)

\* what one provider result can look like: rating and user_ratings_total a
\* number or not; place_id missing, an empty string or an identifier; name
\* and vicinity a string or not; geometry.location missing, a coordinate, or
\* an object whose lat is not a number
CandKinds ==
  { [rating |-> Absent,   urt |-> Absent,    pid |-> "given",  named |-> TRUE,
     vic |-> TRUE,  loc |-> Absent],
    [rating |-> Some(35), urt |-> Some(8),   pid |-> "given",  named |-> TRUE,
     vic |-> TRUE,  loc |-> Absent],
    [rating |-> Some(40), urt |-> Absent,    pid |-> "absent", named |-> TRUE,
     vic |-> TRUE,  loc |-> Absent],
    [rating |-> Some(40), urt |-> Some(120), pid |-> "given",  named |-> TRUE,
     vic |-> TRUE,  loc |-> Absent],
    [rating |-> Some(47), urt |-> Some(8),   pid |-> "given",  named |-> TRUE,
     vic |-> TRUE,  loc |-> Absent] }

\* the kinds used for the whole-handler specification
HandlerKinds ==
  { [rating |-> Absent,   urt |-> Absent,    pid |-> "given",  named |-> TRUE,
     vic |-> TRUE,  loc |-> Some(Coordinate(100))],
    [rating |-> Some(40), urt |-> Absent,    pid |-> "absent", named |-> TRUE,
     vic |-> TRUE,  loc |-> Some(Coordinate(200))],
    [rating |-> Some(42), urt |-> Some(120), pid |-> "empty",  named |-> FALSE,
     vic |-> FALSE, loc |-> Some([lat |-> Absent, lng |-> Some(0)])],
    [rating |-> Some(45), urt |-> Some(0),   pid |-> "absent", named |-> TRUE,
     vic |-> FALSE, loc |-> Some(Coordinate(1300))],
    [rating |-> Some(47), urt |-> Some(8),   pid |-> "given",  named |-> TRUE,
     vic |-> FALSE, loc |-> Absent] }

Candidate(i, k) ==
  [id |-> i, rating |-> k.rating, user_ratings_total |-> k.urt,
   place_id |-> IF k.pid = "given" THEN Some(<<"I", "d", "_">> \o Decimal(i))
                ELSE IF k.pid = "empty" THEN Some(<<>>) ELSE Absent,
   name     |-> IF k.named THEN Some(<<"N", " ">> \o Decimal(i)) ELSE Absent,
   vicinity |-> IF k.vic THEN Some(<<"V", ",">> \o Decimal(i)) ELSE Absent,
   geometry |-> k.loc]

\* the list of n candidates whose kinds repeat the pattern base
PlacesOf(n, base) ==
  [i \in 1..n |-> Candidate(i, base[((i - 1) % CycleLen) + 1])]

PlaceLists(kinds, maxLen) ==
  { PlacesOf(n, base) : n \in 0..maxLen, base \in [1..CycleLen -> kinds] }

(***************************************************************************)
(* Candidate selection (handler, lines 63-77)                              *)
(***************************************************************************)
\* .filter((p) => typeof p.rating === "number")
ratedFilter(ps) == SelectSeq(ps, LAMBDA p : IsNumber(p.rating))

\* the comparator without the tie-break on the rating count
compare_RatingOnly(a, b) == Coalesce(b.rating, 0) - Coalesce(a.rating, 0)

\* the comparator with its operands exchanged (sorts ascending)
compare_Ascending(a, b) ==
  LET r == Coalesce(a.rating, 0) - Coalesce(b.rating, 0)
  IN  IF r # 0 THEN r
      ELSE Coalesce(a.user_ratings_total, 0) - Coalesce(b.user_ratings_total, 0)

\* the sort comparator: negative when a goes before b
compare(a, b) ==
  LET r == Coalesce(b.rating, 0) - Coalesce(a.rating, 0)
  IN  IF r # 0 THEN r
      ELSE Coalesce(b.user_ratings_total, 0) - Coalesce(a.user_ratings_total, 0)

\* Array.prototype.sort is stable: x goes before the first element that
\* compares strictly after it
InsertSorted(s, x) ==
  LET later == { k \in 1..Len(s) : compare(x, s[k]) < 0 }
      pos   == IF later = {} THEN Len(s) + 1
               ELSE CHOOSE k \in later : \A m \in later : k <= m
  IN  SubSeq(s, 1, pos - 1) \o <<x>> \o SubSeq(s, pos, Len(s))

RECURSIVE sortStable(_)
sortStable(s) ==
  IF s = <<>> THEN <<>>
  ELSE InsertSorted(sortStable(SubSeq(s, 1, Len(s) - 1)), s[Len(s)])

rated(ps) == sortStable(ratedFilter(ps))

fourPlus(r) == SelectSeq(r, LAMBDA p : Coalesce(p.rating, 0) >= FourPlusThreshold)

\* a base that is always the full rated list
chosenBase_Rated(r) == r

\* fourPlus.length > 0 ? fourPlus : rated
chosenBase(r) == IF Len(fourPlus(r)) > 0 THEN fourPlus(r) ELSE r

\* chosenBase.slice(0, Math.min(12, chosenBase.length))
poolOf(base) == SubSeq(base, 1, Min(PoolCap, Len(base)))

\* the shortlist without the final slice
chosenOf_NoSlice(pl) == pl

\* pool.slice(0, Math.min(5, pool.length))
chosenOf(pl) == SubSeq(pl, 1, Min(ShortlistMax, Len(pl)))

(***************************************************************************)
(* shuffleInPlace (lines 252-257)                                          *)
(***************************************************************************)
\* the draw Math.floor(Math.random() * i), which never gives j = i
RandomIndices_Short(i) == 0..(i - 1)

\* the values Math.floor(Math.random() * (i + 1)) takes in the model: every
\* one when shuffleInPlace is examined alone, those of the bound FullDraw
\* when the shuffle is a part of the selection
RandomIndices(i) ==
  IF pc = "shuffle" \/ i < FullDraw THEN 0..i ELSE {(i + 1) \div 2}

\* an assignment arr[i] = arr[j] in place of the exchange
Swap_Overwrite(arr, i, j) ==
  [k \in 1..Len(arr) |-> IF k = i + 1 THEN arr[j + 1] ELSE arr[k]]

\* [arr[i], arr[j]] = [arr[j], arr[i]]  (0-based i, j)
Swap(arr, i, j) ==
  [k \in 1..Len(arr) |->
     IF k = i + 1 THEN arr[j + 1] ELSE IF k = j + 1 THEN arr[i + 1] ELSE arr[k]]

\* every array the loop can leave, started at index i
RECURSIVE ShuffleFrom(_, _)
ShuffleFrom(arr, i) ==
  IF i <= 0 THEN {arr}
  ELSE UNION { ShuffleFrom(Swap(arr, i, j), i - 1) : j \in RandomIndices(i) }

shuffleInPlace(arr) == ShuffleFrom(arr, Len(arr) - 1)

(***************************************************************************)
(* Collaborator calls: what each helper returns for each provider outcome  *)
(***************************************************************************)
\* how an async helper settles: it rejects, or it returns a value
Threw == [threw |-> TRUE, value |-> <<>>]
Returned(v) == [threw |-> FALSE, value |-> v]

\* outcomes of one HTTP exchange that make the helper's await reject:
\* fetch rejects, resp.json() rejects, or the body parses to null
Throwing == {"fetchThrows", "jsonThrows", "nullJson"}

GeoOutcomes == Throwing \cup {"notOk", "noResultsArray", "zeroResults", "badLocation", "ok"}

\* geocodeToLocation raising on a non-success status instead of returning null
geocodeToLocation_NotOkThrows(out) ==
  IF out \in Throwing \cup {"notOk"} THEN Threw
  ELSE IF out = "ok" THEN Returned(Some(Coordinate(0))) ELSE Returned(Absent)

\* geocodeToLocation (lines 156-171): rejects, returns null or a coordinate
geocodeToLocation(out) ==
  IF out \in Throwing THEN Threw
  ELSE IF out = "ok" THEN Returned(Some(Coordinate(0))) ELSE Returned(Absent)

SearchOutcomes == Throwing \cup {"notOk", "noResultsArray", "ok"}

\* nearbySearchRestaurants (lines 173-197): rejects or returns the candidates
nearbySearchRestaurants(out, results) ==
  IF out \in Throwing THEN Threw
  ELSE IF out = "ok" THEN Returned(results) ELSE Returned(<<>>)

\* the reviews field of a place-details result: not an array, or reviews whose
\* text is a string or not
ReviewLists(i) ==
  { Absent,
    Some(<<>>),
    Some(<<[text |-> Some(<<" ">>)], [text |-> Absent]>>),
    Some(<<[text |-> Some(<<"y">> \o Decimal(i) \o <<" ">>)], [text |-> Absent]>>) }

DetailOutcomes == Throwing \cup {"notOk", "statusNotOk", "noResult", "ok"}

\* placeDetailsForReviews (lines 199-215) once the fetch was issued:
\* rejects, returns null or the result object
placeDetailsForReviews(out, reviews) ==
  IF out \in Throwing THEN Threw
  ELSE IF out = "ok" THEN Returned(Some([reviews |-> reviews])) ELSE Returned(Absent)

\* the extraction without the slice(0, 8)
extractReviewTexts_NoCap(details) ==
  IF details = Absent \/ details[1].reviews = Absent THEN <<>>
  ELSE LET rs    == details[1].reviews[1]
           texts == [k \in 1..Len(rs) |->
                       IF rs[k].text # Absent THEN Trim(rs[k].text[1]) ELSE <<>>]
       IN  NonEmpty(texts)

\* extractReviewTexts (lines 217-223)
extractReviewTexts(details) ==
  IF details = Absent \/ details[1].reviews = Absent THEN <<>>
  ELSE LET rs    == details[1].reviews[1]
           texts == [k \in 1..Len(rs) |->
                       IF rs[k].text # Absent THEN Trim(rs[k].text[1]) ELSE <<>>]
           kept  == NonEmpty(texts)
       IN  SubSeq(kept, 1, Min(ReviewCap, Len(kept)))

\* no extraction asked for
NoExtract == [details |-> Absent, reviewTexts |-> <<>>]

\* what the chat-completions exchange can give: a failure, or a body whose
\* first choice has content (a string or not)
GenContents(reviewTexts) ==
  {Absent, Some(<<>>), Some(<<" ">>), Some(<<" ", "O", "k", " ">> \o reviewTexts[1])}
GenOutcomes(reviewTexts) ==
  [kind : Throwing \cup {"notOk"}, content : {Absent}]
    \cup [kind : {"ok"}, content : GenContents(reviewTexts)]

\* summarizeReviewsWithOpenAI (lines 261-313) once the fetch was issued
summarizeReviewsWithOpenAI(out) ==
  IF out.kind \in Throwing THEN <<>>        \* caught (lines 309-312)
  ELSE IF out.kind = "notOk" THEN <<>>
  ELSE IF out.content = Absent THEN <<>>
  ELSE Trim(out.content[1])

FallbackInsight ==
  <<"Cute foodie vibes! Reviews are limited, but this spot looks promising for an adventure.">>

(***************************************************************************)
(* Responses                                                               *)
(***************************************************************************)
NoReply == [kind |-> "none", blocks |-> <<>>]

\* an error response that never sets the Allow header
ErrorResponse_NoAllow(status, allow, error, detail) ==
  [status |-> status, allow |-> FALSE, error |-> error, detail |-> detail,
   reply |-> NoReply]

ErrorResponse(status, allow, error, detail) ==
  [status |-> status, allow |-> allow, error |-> error, detail |-> detail,
   reply |-> NoReply]

ReplyResponse(reply) ==
  [status |-> 200, allow |-> FALSE, error |-> "", detail |-> FALSE, reply |-> reply]

\* the top-level catch (lines 134-140)
InternalError == ErrorResponse(500, FALSE, "Internal server error", TRUE)

\* the characters of the model's strings that encodeURIComponent escapes:
\* those outside A-Z a-z 0-9 - _ . ! ~ * ' ( )
Escaped == {" ", ",", "\t"}

\* the escape sequence of such a character (its UTF-8 byte in hexadecimal)
PercentCode(c) ==
  IF c = " " THEN <<"%", "2", "0">>
  ELSE IF c = "," THEN <<"%", "2", "C">>
  ELSE <<"%", "0", "9">>

RECURSIVE encodeURIComponent(_)
encodeURIComponent(str) ==
  IF str = <<>> THEN <<>>
  ELSE (IF str[1] \in Escaped THEN PercentCode(str[1]) ELSE <<str[1]>>)
         \o encodeURIComponent(Tail(str))

UnknownRestaurant ==
  <<"U", "n", "k", "n", "o", "w", "n", " ", "R", "e", "s", "t", "a", "u", "r",
    "a", "n", "t">>

\* a link that is always built from the free text
makePlacePageUrl_TextOnly(placeId, name, vicinity, station) ==
  [form |-> "text",
   q    |-> encodeURIComponent(name \o <<" ">> \o OrElse(vicinity, station)
                                 \o <<" ", "J", "a", "p", "a", "n">>)]

\* makePlacePageUrl (lines 225-231): form "place_id" is the link
\* .../maps/place/?q=place_id:<q>, form "text" the link .../maps/place/?q=<q>
makePlacePageUrl(placeId, name, vicinity, station) ==
  IF TruthyString(placeId)
  THEN [form |-> "place_id", q |-> encodeURIComponent(placeId[1])]
  ELSE [form |-> "text",
        q    |-> encodeURIComponent(name \o <<" ">> \o OrElse(vicinity, station)
                                      \o <<" ", "J", "a", "p", "a", "n">>)]

\* JavaScript truthiness of a value that is a number or null
TruthyNumber(v) == v # Absent /\ v[1] # 0

\* lines 110-118: "<n>+ reviews" (plus), "<n> reviews" (exact) or
\* "a few reviews" (few)
countText(reviewsCount) ==
  IF TruthyNumber(reviewsCount) /\ reviewsCount[1] >= ManyReviews
  THEN [form |-> "plus", n |-> reviewsCount]
  ELSE IF TruthyNumber(reviewsCount)
  THEN [form |-> "exact", n |-> reviewsCount]
  ELSE [form |-> "few", n |-> Absent]

\* lines 103-118 for one shortlist member: the loop's walkMin, the access
\* text ("Approx. <mins> min walk" or "Near <station>"), the map link and
\* the review-count phrase
Rendered(p, insight) ==
  LET name    == IF TruthyString(p.name) THEN p.name[1] ELSE UnknownRestaurant
      walkMin == estimateWalkMinutes(geocodeToLocation(geoOut).value, p.geometry)
  IN  [id      |-> p.id,
       walkMin |-> walkMin,
       access  |-> IF IsNumber(walkMin)
                   THEN [form |-> "approx", mins |-> walkMin, station |-> <<>>]
                   ELSE [form |-> "near", mins |-> Absent, station |-> parsed.station],
       mapUrl  |-> makePlacePageUrl(p.place_id, name, Coalesce(p.vicinity, <<>>),
                                    parsed.station),
       countText |-> countText(p.user_ratings_total),
       insight |-> insight]

\* the reply without the `|| fallback` of lines 120-122
PicksReply_NoFallback(ch, mem) ==
  [kind   |-> "picks",
   blocks |-> [k \in 1..Len(ch) |-> Rendered(ch[k], mem[k].summary)]]

\* a reply that pairs the shortlist with the results in the opposite order
PicksReply_Reversed(ch, mem) ==
  [kind   |-> "picks",
   blocks |-> [k \in 1..Len(ch) |->
                 Rendered(ch[k], OrElse(mem[Len(ch) + 1 - k].summary, FallbackInsight))]]

\* the reply assembled from the fan-out results (lines 97-133)
PicksReply(ch, mem) ==
  [kind   |-> "picks",
   blocks |-> [k \in 1..Len(ch) |->
                 Rendered(ch[k], OrElse(mem[k].summary, FallbackInsight))]]

(***************************************************************************)
(* Spec: one request through handler (lines 6-141)                         *)
(***************************************************************************)
\* process.env values: undefined, empty or set
KeyValues == {Absent, Some(""), Some("key")}
\* a key test that only asks whether the variable is defined
Truthy_Defined(v) == v # Absent

\* JavaScript truthiness of an environment variable
Truthy(v) == v # Absent /\ v[1] # ""

\* body.text: not a string, or a string
TextInputs ==
  { Absent, Some(<<>>), Some(<<" ">>), Some(<<"S">>), Some(<<" ", "S", " ", "r">>),
    Some(<<"S", ",", "r">>) }

Requests == [method : {"POST", "GET"}, text : TextInputs]

Call(name, of) == [call |-> name, of |-> of]

Init ==
  /\ pc = "start"
  /\ env \in [mapsKey : KeyValues, openaiKey : KeyValues]
  /\ req \in Requests
  /\ parsed = [station |-> <<>>, genre |-> <<>>]
  /\ places = <<>>
  /\ pool = <<>>
  /\ chosen = <<>>
  /\ member = <<>>
  /\ issued = {}
  /\ responses = <<>>
  /\ geoOut = "none"
  /\ searchOut = "none"
  /\ walk = NoWalk
  /\ extract = NoExtract

\* lines 7-36: up to the geocoding fetch
handler ==
  /\ pc = "start"
  /\ LET text == IF req.text # Absent THEN Trim(req.text[1]) ELSE <<>>
     IN  IF req.method # "POST"
         THEN /\ responses' = Append(responses,
                     ErrorResponse(405, TRUE, "Method Not Allowed", FALSE))
              /\ pc' = "done"
              /\ UNCHANGED <<parsed, issued>>
         ELSE IF ~Truthy(env.mapsKey)
         THEN /\ responses' = Append(responses,
                     ErrorResponse(500, FALSE, "GOOGLE_MAPS_API_KEY is not set", FALSE))
              /\ pc' = "done"
              /\ UNCHANGED <<parsed, issued>>
         ELSE IF ~Truthy(env.openaiKey)
         THEN /\ responses' = Append(responses,
                     ErrorResponse(500, FALSE, "OPENAI_API_KEY is not set", FALSE))
              /\ pc' = "done"
              /\ UNCHANGED <<parsed, issued>>
         ELSE IF text = <<>>
         THEN /\ responses' = Append(responses,
                     ErrorResponse(400, FALSE, "Missing 'text' in request body.", FALSE))
              /\ pc' = "done"
              /\ UNCHANGED <<parsed, issued>>
         ELSE /\ parsed' = parseStationGenre(text)
              /\ issued' = issued \cup {Call("geocode", 0)}
              /\ pc' = "geocode"
              /\ UNCHANGED responses
  /\ UNCHANGED <<walk, extract>>
  /\ UNCHANGED <<env, req, places, pool, chosen, member, geoOut, searchOut>>

\* lines 36-52: the geocoding fetch settles
geocodeReturns ==
  /\ pc = "geocode"
  /\ \E out \in GeoOutcomes :
       /\ geoOut' = out
       /\ LET stationLoc == geocodeToLocation(out)
          IN  IF stationLoc.threw
              THEN /\ responses' = Append(responses, InternalError)
                   /\ pc' = "done"
                   /\ UNCHANGED issued
              ELSE IF stationLoc.value = Absent
              THEN /\ responses' = Append(responses,
                          ReplyResponse([kind |-> "notLocated", blocks |-> <<>>]))
                   /\ pc' = "done"
                   /\ UNCHANGED issued
              ELSE /\ issued' = issued \cup {Call("search", 0)}
                   /\ pc' = "search"
                   /\ UNCHANGED responses
  /\ UNCHANGED <<walk, extract>>
  /\ UNCHANGED <<env, req, parsed, places, pool, chosen, member, searchOut>>

\* no text-generation exchange yet / one in flight
NoGen == [kind |-> "none", content |-> Absent]
PendingGen == [kind |-> "pending", content |-> Absent]

\* the state of the async callback of one shortlist member (lines 81-93)
\* when chosen.map has run it up to its first pending fetch
StartMember(p) ==
  IF ~TruthyString(p.place_id)
  THEN \* placeDetailsForReviews returns null, summarize returns ""
       [st |-> "done", detailOut |-> "noId", genOut |-> NoGen,
        reviewTexts |-> <<>>, summary |-> <<>>]
  ELSE [st |-> "detail", detailOut |-> "pending", genOut |-> NoGen,
        reviewTexts |-> <<>>, summary |-> <<>>]

AllDone(mem) == \A k \in 1..Len(mem) : mem[k].st = "done"

\* lines 47-94: the search fetch settles, selection, start of the fan-out
searchReturns ==
  /\ pc = "search"
  /\ \E out \in SearchOutcomes, results \in PlaceLists(HandlerKinds, MaxPlaces) :
       /\ out # "ok" => results = <<>>
       /\ searchOut' = out
       /\ LET search == nearbySearchRestaurants(out, results)
              found  == search.value
          IN  IF search.threw
              THEN /\ responses' = Append(responses, InternalError)
                   /\ pc' = "done"
                   /\ UNCHANGED <<places, pool, chosen, member, issued>>
              ELSE IF Len(found) = 0
              THEN /\ places' = found
                   /\ responses' = Append(responses,
                          ReplyResponse([kind |-> "noRestaurants", blocks |-> <<>>]))
                   /\ pc' = "done"
                   /\ UNCHANGED <<pool, chosen, member, issued>>
              ELSE \E shuffled \in shuffleInPlace(poolOf(chosenBase(rated(found)))) :
                     LET ch  == chosenOf(shuffled)
                         mem == [k \in 1..Len(ch) |-> StartMember(ch[k])]
                     IN  /\ places' = found
                         /\ pool' = shuffled
                         /\ chosen' = ch
                         /\ member' = mem
                         /\ issued' = issued \cup
                              { Call("detail", ch[k].id) :
                                  k \in { m \in 1..Len(ch) : TruthyString(ch[m].place_id) } }
                         /\ IF AllDone(mem)
                            THEN /\ responses' = Append(responses,
                                        ReplyResponse(PicksReply(ch, mem)))
                                 /\ pc' = "done"
                            ELSE /\ pc' = "enrich"
                                 /\ UNCHANGED responses
  /\ UNCHANGED <<walk, extract>>
  /\ UNCHANGED <<env, req, parsed, geoOut>>

\* a handler that answers whenever a callback rejects or the last one returns,
\* whether or not it has answered already
Settle_Again(mem) ==
  IF \E k \in 1..Len(mem) : mem[k].st = "rejected"
  THEN /\ responses' = Append(responses, InternalError)
       /\ pc' = "done"
  ELSE IF AllDone(mem)
  THEN /\ responses' = Append(responses, ReplyResponse(PicksReply(chosen, mem)))
       /\ pc' = "done"
  ELSE UNCHANGED <<responses, pc>>

\* what the handler does when member k's callback has moved to state mem:
\* Promise.all rejects on the first rejection (caught at lines 134-140),
\* resolves when every callback has returned (lines 97-133)
Settle(mem) ==
  IF pc = "enrich" /\ \E k \in 1..Len(mem) : mem[k].st = "rejected"
  THEN /\ responses' = Append(responses, InternalError)
       /\ pc' = "done"
  ELSE IF pc = "enrich" /\ AllDone(mem)
  THEN /\ responses' = Append(responses, ReplyResponse(PicksReply(chosen, mem)))
       /\ pc' = "done"
  ELSE UNCHANGED <<responses, pc>>

\* lines 82-90: member k's place-details fetch settles
detailReturns(k) ==
  /\ member[k].st = "detail"
  /\ \E out \in DetailOutcomes, reviews \in ReviewLists(chosen[k].id) :
       /\ out # "ok" => reviews = Absent
       /\ LET details     == placeDetailsForReviews(out, reviews)
              reviewTexts == IF details.threw THEN <<>>
                             ELSE extractReviewTexts(details.value)
              next ==
                IF details.threw
                THEN [member[k] EXCEPT !.st = "rejected", !.detailOut = out]
                ELSE IF reviewTexts = <<>>
                THEN \* summarizeReviewsWithOpenAI returns "" without a fetch
                     [member[k] EXCEPT !.st = "done", !.detailOut = out]
                ELSE [member[k] EXCEPT !.st = "gen", !.detailOut = out,
                                       !.genOut = PendingGen,
                                       !.reviewTexts = reviewTexts]
              mem == [member EXCEPT ![k] = next]
          IN  /\ member' = mem
              /\ issued' = IF next.st = "gen"
                           THEN issued \cup {Call("gen", chosen[k].id)}
                           ELSE issued
              /\ Settle(mem)
  /\ UNCHANGED <<walk, extract>>
  /\ UNCHANGED <<env, req, parsed, places, pool, chosen, geoOut, searchOut>>

\* lines 84-92: member k's text-generation fetch settles
genReturns(k) ==
  /\ member[k].st = "gen"
  /\ \E out \in GenOutcomes(member[k].reviewTexts) :
       LET sakuraSummary == summarizeReviewsWithOpenAI(out)
           mem == [member EXCEPT ![k] =
                     [@ EXCEPT !.st = "done", !.genOut = out,
                               !.summary = sakuraSummary]]
       IN  /\ member' = mem
           /\ Settle(mem)
  /\ UNCHANGED <<walk, extract>>
  /\ UNCHANGED <<env, req, parsed, places, pool, chosen, issued, geoOut, searchOut>>

Next ==
  \/ handler
  \/ geocodeReturns
  \/ searchReturns
  \/ \E k \in 1..Len(member) : detailReturns(k)
  \/ \E k \in 1..Len(member) : genReturns(k)

Spec == Init /\ [][Next]_vars

\* Spec where every issued fetch settles and the event loop runs every
\* continuation that is ready: a step is taken as long as one is possible
SpecLive == Spec /\ WF_vars(Next)

(***************************************************************************)
(* SpecSel: the selection code applied to one candidate list               *)
(***************************************************************************)
Idle ==
  /\ env = [mapsKey |-> Absent, openaiKey |-> Absent]
  /\ req = [method |-> "POST", text |-> Absent]
  /\ parsed = [station |-> <<>>, genre |-> <<>>]
  /\ member = <<>>
  /\ issued = {}
  /\ responses = <<>>
  /\ geoOut = "none"
  /\ searchOut = "none"
  /\ walk = NoWalk
  /\ extract = NoExtract

InitSel ==
  /\ pc = "select"
  /\ places \in PlaceLists(CandKinds, MaxCand)
  /\ pool = <<>>
  /\ chosen = <<>>
  /\ Idle

Select ==
  /\ pc = "select"
  /\ \E shuffled \in shuffleInPlace(poolOf(chosenBase(rated(places)))) :
       /\ pool' = shuffled
       /\ chosen' = chosenOf(shuffled)
  /\ pc' = "selected"
  /\ UNCHANGED <<walk, extract>>
  /\ UNCHANGED <<env, req, parsed, places, member, issued, responses,
                 geoOut, searchOut>>

NextSel == Select

SpecSel == InitSel /\ [][NextSel]_vars

(***************************************************************************)
(* SpecShuffle: shuffleInPlace and the slice after it (lines 76-77) applied *)
(* to one array                                                            *)
(***************************************************************************)
ShuffleKind ==
  [rating |-> Some(47), urt |-> Some(8), pid |-> "given", named |-> TRUE,
   vic |-> TRUE, loc |-> Absent]

\* arrays of distinct candidates, and short arrays in which a candidate may
\* occur more than once
ShuffleInputs ==
  { [k \in 1..n |-> Candidate(k, ShuffleKind)] : n \in 0..MaxShuffle }
    \cup UNION { { [k \in 1..n |-> Candidate(f[k], ShuffleKind)] : f \in [1..n -> 1..2] } :
                   n \in 0..MaxRepeat }

InitShuffle ==
  /\ pc = "shuffle"
  /\ places \in ShuffleInputs
  /\ pool = places
  /\ chosen = <<>>
  /\ Idle

\* lines 76-77
Shuffle ==
  /\ pc = "shuffle"
  /\ \E shuffled \in shuffleInPlace(pool) :
       /\ pool' = shuffled
       /\ chosen' = chosenOf(shuffled)
  /\ pc' = "shuffled"
  /\ UNCHANGED <<walk, extract>>
  /\ UNCHANGED <<env, req, parsed, places, member, issued, responses,
                 geoOut, searchOut>>

NextShuffle == Shuffle

SpecShuffle == InitShuffle /\ [][NextShuffle]_vars

(***************************************************************************)
(* SpecParse: parseStationGenre applied to one request text                *)
(***************************************************************************)
TextChars == {"a", "b", " ", "\t", ","}

\* every string of at most n characters
Texts(n) == UNION { [1..len -> TextChars] : len \in 0..n }

\* the texts that pass the handler's `!text` test (lines 27-31)
NonBlankTexts(n) == { t \in Texts(n) : Trim(t) # <<>> }

InitParse ==
  /\ pc = "parse"
  /\ env = [mapsKey |-> Some("key"), openaiKey |-> Some("key")]
  /\ req \in [method : {"POST"}, text : { Some(t) : t \in NonBlankTexts(MaxText) }]
  /\ parsed = [station |-> <<>>, genre |-> <<>>]
  /\ places = <<>>
  /\ pool = <<>>
  /\ chosen = <<>>
  /\ member = <<>>
  /\ issued = {}
  /\ responses = <<>>
  /\ geoOut = "none"
  /\ searchOut = "none"
  /\ walk = NoWalk
  /\ extract = NoExtract

\* lines 28 and 33: the body text is trimmed and parsed
Parse ==
  /\ pc = "parse"
  /\ parsed' = parseStationGenre(Trim(req.text[1]))
  /\ pc' = "parsed"
  /\ UNCHANGED <<walk, extract>>
  /\ UNCHANGED <<env, req, places, pool, chosen, member, issued, responses,
                 geoOut, searchOut>>

NextParse == Parse

SpecParse == InitParse /\ [][NextParse]_vars

(***************************************************************************)
(* SpecWalk: estimateWalkMinutes applied to two destinations of one origin *)
(***************************************************************************)
Origins == {Coordinate(0), Coordinate(40 * GridStep)}

\* p.geometry?.location: a coordinate, undefined, or an object whose lat or
\* lng is not a number
Destinations ==
  { Some(Coordinate(k * GridStep)) : k \in 0..MaxSteps }
    \cup {Absent, Some([lat |-> Absent, lng |-> Some(0)]),
          Some([lat |-> Some(0), lng |-> Absent])}

InitWalk ==
  /\ pc = "walk"
  /\ walk \in [origin : { Some(o) : o \in Origins }, destA : Destinations,
               destB : Destinations, minsA : {Absent}, minsB : {Absent}]
  /\ extract = NoExtract
  /\ env = [mapsKey |-> Absent, openaiKey |-> Absent]
  /\ req = [method |-> "POST", text |-> Absent]
  /\ parsed = [station |-> <<>>, genre |-> <<>>]
  /\ places = <<>>
  /\ pool = <<>>
  /\ chosen = <<>>
  /\ member = <<>>
  /\ issued = {}
  /\ responses = <<>>
  /\ geoOut = "none"
  /\ searchOut = "none"

\* line 106, for each of the two destinations
EstimateWalk ==
  /\ pc = "walk"
  /\ walk' = [walk EXCEPT !.minsA = estimateWalkMinutes(walk.origin, walk.destA),
                          !.minsB = estimateWalkMinutes(walk.origin, walk.destB)]
  /\ pc' = "walked"
  /\ UNCHANGED <<env, req, parsed, places, pool, chosen, member, issued,
                 responses, geoOut, searchOut, extract>>

NextWalk == EstimateWalk

SpecWalk == InitWalk /\ [][NextWalk]_vars

(***************************************************************************)
(* SpecReviews: extractReviewTexts applied to one place-details result     *)
(***************************************************************************)
\* the text of review i: not a string, empty, blank, a word with whitespace
\* around it, a word
ReviewKinds == {"notString", "empty", "blank", "padded", "plain"}

Review(i, kind) ==
  [text |-> IF kind = "notString" THEN Absent
            ELSE IF kind = "empty" THEN Some(<<>>)
            ELSE IF kind = "blank" THEN Some(<<" ", "\t">>)
            ELSE IF kind = "padded" THEN Some(<<" ", "r">> \o Decimal(i) \o <<"\t">>)
            ELSE Some(<<"r">> \o Decimal(i))]

\* what placeDetailsForReviews can hand over: null, a result whose reviews
\* are not an array, or a result with n reviews whose kinds repeat a pattern
DetailResults ==
  {Absent, Some([reviews |-> Absent])}
    \cup { Some([reviews |-> Some([i \in 1..n |->
                      Review(i, base[((i - 1) % ReviewCycle) + 1])])]) :
             n \in 0..MaxReviews, base \in [1..ReviewCycle -> ReviewKinds] }

InitReviews ==
  /\ pc = "extract"
  /\ extract \in [details : DetailResults, reviewTexts : {<<>>}]
  /\ env = [mapsKey |-> Absent, openaiKey |-> Absent]
  /\ req = [method |-> "POST", text |-> Absent]
  /\ parsed = [station |-> <<>>, genre |-> <<>>]
  /\ places = <<>>
  /\ pool = <<>>
  /\ chosen = <<>>
  /\ member = <<>>
  /\ issued = {}
  /\ responses = <<>>
  /\ geoOut = "none"
  /\ searchOut = "none"
  /\ walk = NoWalk

\* line 83
Extract ==
  /\ pc = "extract"
  /\ extract' = [extract EXCEPT !.reviewTexts = extractReviewTexts(extract.details)]
  /\ pc' = "extracted"
  /\ UNCHANGED <<env, req, parsed, places, pool, chosen, member, issued,
                 responses, geoOut, searchOut, walk>>

NextReviews == Extract

SpecReviews == InitReviews /\ [][NextReviews]_vars

(***************************************************************************)
(* Properties                                                              *)
(***************************************************************************)
Range(s) == { s[k] : k \in 1..Len(s) }
Rated(ps) == { p \in Range(ps) : IsNumber(p.rating) }
HighQuality(ps) == { p \in Rated(ps) : p.rating[1] >= 40 }
LowerRated(ps) == { p \in Rated(ps) : p.rating[1] < 40 }

\* the request passes the method, credential and input checks
ValidRequest ==
  /\ req.method = "POST"
  /\ Truthy(env.mapsKey) /\ Truthy(env.openaiKey)
  /\ req.text # Absent /\ Trim(req.text[1]) # <<>>

PicksSent == Len(responses) = 1 /\ responses[1].reply.kind = "picks"

\* C1 (SpecSel): the shortlist has exactly min(5, candidateCount) entries when
\* the search returned at least one candidate, and none when it returned none.
C1_ShortlistLength ==
  pc = "selected" =>
    Len(chosen) = (IF Len(places) >= 1 THEN Min(5, Len(places)) ELSE 0)

\* C2 (Spec): whenever the places search returned at least one candidate the
\* shortlist is non-empty and a reply of picks lists at least one venue, also
\* when no candidate has a numeric rating.
C2_NonEmptyShortlist ==
  (Len(places) >= 1 /\ pc \in {"enrich", "done"}) =>
    /\ Len(chosen) >= 1
    /\ \A n \in 1..Len(responses) :
         responses[n].reply.kind = "picks" => Len(responses[n].reply.blocks) >= 1

\* C3 (SpecSel): quality floor - every member of the shortlist is rated at
\* least as high as every rated candidate that was left outside the pool.
C3_QualityFloor ==
  pc = "selected" =>
    \A m \in Range(chosen) :
      \A p \in Rated(places) \ Range(pool) :
        IsNumber(m.rating) /\ m.rating[1] >= p.rating[1]

\* a shortlist of five drawn from a full pool, with a candidate rated 4.0 or
\* more cut off by the pool cap
C3_Witness ==
  /\ pc = "selected"
  /\ Len(pool) = 12
  /\ Len(chosen) = 5
  /\ HighQuality(places) \ Range(pool) # {}

\* C4 (SpecSel): when between one and four candidates are rated 4.0 or more
\* and lower-rated candidates exist, the pool is exactly the high-quality
\* candidates and the shortlist holds all of them plus lower-rated fill,
\* at most 5 entries in all.
C4_FillFromLowerRated ==
  (pc = "selected" /\ Cardinality(HighQuality(places)) \in 1..4
     /\ LowerRated(places) # {}) =>
    /\ Range(pool) = HighQuality(places)
    /\ HighQuality(places) \subseteq Range(chosen)
    /\ Range(chosen) \cap LowerRated(places) # {}
    /\ Len(chosen) <= 5

\* C5 (SpecSel): the shortlist, and with it the venue blocks of a reply, never
\* has more than 5 entries.
C5_AtMostFive ==
  /\ Len(chosen) <= 5
  /\ \A n \in 1..Len(responses) : Len(responses[n].reply.blocks) <= 5

\* a pool of more than five candidates cut down to a shortlist of five
C5_Witness == pc = "selected" /\ Len(pool) > 5 /\ Len(chosen) = 5

\* C6 (Spec): a POST request with credentials configured and non-blank text
\* always ends with a success response carrying a reply, however a
\* collaborator fails.
C6_AlwaysReplies ==
  (ValidRequest /\ pc = "done") =>
    /\ Len(responses) = 1
    /\ responses[1].status = 200
    /\ responses[1].reply.kind # "none"

\* C7 (Spec): the detail fetch never raises to its caller - a missing
\* identifier, a non-success status and a transport failure all give the
\* "no detail available" result (no review texts).
C7_DetailNeverRaises ==
  \A k \in 1..Len(member) :
    member[k].detailOut \in Throwing \cup {"noId", "notOk", "statusNotOk"} =>
      /\ member[k].st = "done"
      /\ member[k].reviewTexts = <<>>

\* text generation failed for this member: error status, transport or parse
\* failure, malformed response or empty output
GenFailed(m) ==
  \/ m.genOut.kind \in Throwing \cup {"notOk"}
  \/ m.genOut.kind = "ok" /\ m.genOut.content \in {Absent, Some(<<>>)}

\* C8 (Spec): a failed text generation never fails the request (an internal
\* error comes from another collaborator raising), the failed candidate's
\* insight in the reply is the fixed fallback sentence, and every insight of a
\* reply is non-empty.
C8_GenerationFallback ==
  /\ \A n \in 1..Len(responses) :
       responses[n].status = 500 /\ responses[n].error = "Internal server error" =>
         \/ geoOut \in Throwing
         \/ searchOut \in Throwing
         \/ \E k \in 1..Len(member) : member[k].detailOut \in Throwing
  /\ (\A k \in 1..Len(member) : member[k].st = "done") =>
       /\ member # <<>> => PicksSent
       /\ PicksSent =>
            \A k \in 1..Len(member) :
              /\ responses[1].reply.blocks[k].insight # <<>>
              /\ GenFailed(member[k]) =>
                   responses[1].reply.blocks[k].insight = FallbackInsight

\* a reply of two picks whose text generation both failed, once by a
\* transport error
C8_Witness ==
  /\ PicksSent
  /\ responses[1].status = 200
  /\ Len(member) = 2
  /\ \A k \in 1..2 : GenFailed(member[k])
  /\ \E k \in 1..2 : member[k].genOut.kind = "fetchThrows"

\* enrichment failed for this member: its detail fetch or its text
\* generation did not deliver
EnrichFailed(m) ==
  \/ m.detailOut \in Throwing \cup {"notOk", "statusNotOk", "noResult"}
  \/ GenFailed(m)

\* C9 (Spec): in the fan-out a failure of one member's detail fetch or text
\* generation never prevents the others - once every member has settled the
\* reply has a block for every shortlist member, the failed ones with the
\* fallback insight.
C9_FailureIsolated ==
  (Len(member) >= 1 /\ \A k \in 1..Len(member) : member[k].st \in {"done", "rejected"}) =>
    /\ PicksSent
    /\ Len(responses[1].reply.blocks) = Len(chosen)
    /\ \A k \in 1..Len(member) :
         EnrichFailed(member[k]) =>
           responses[1].reply.blocks[k].insight = FallbackInsight

\* geocoding gave no coordinate: error status, no result list, no result or
\* a result without a numeric location
NoCoordinate == {"notOk", "noResultsArray", "zeroResults", "badLocation"}

\* C10 (Spec): the two expected-empty outcomes are answered with status 200
\* and their own reply and stop the pipeline - no coordinate: the "couldn't
\* locate" reply and no call after geocoding; no candidate: the "couldn't
\* find restaurants" reply and no detail or generation call.
C10_ExpectedEmpty ==
  /\ geoOut \in NoCoordinate =>
       /\ pc = "done"
       /\ responses = <<ReplyResponse([kind |-> "notLocated", blocks |-> <<>>])>>
       /\ issued = {Call("geocode", 0)}
  /\ (searchOut \in {"notOk", "noResultsArray"} \/ (searchOut = "ok" /\ places = <<>>)) =>
       /\ pc = "done"
       /\ responses = <<ReplyResponse([kind |-> "noRestaurants", blocks |-> <<>>])>>
       /\ issued = {Call("geocode", 0), Call("search", 0)}
  /\ \A n \in 1..Len(responses) :
       /\ responses[n].reply.kind = "notLocated" => geoOut \in NoCoordinate
       /\ responses[n].reply.kind = "noRestaurants" => places = <<>>

\* the search answered with an empty result list and the request ended with
\* the "couldn't find restaurants" reply
C10_Witness ==
  /\ pc = "done"
  /\ searchOut = "ok"
  /\ places = <<>>
  /\ Len(responses) = 1
  /\ responses[1].status = 200
  /\ responses[1].reply.kind = "noRestaurants"

\* C11 (Spec): the "couldn't locate the station" reply is only given when
\* geocoding returned zero results or a malformed payload - never for a
\* non-success status or a transport error.
C11_NotFoundOnlyWithoutResult ==
  \A n \in 1..Len(responses) :
    responses[n].reply.kind = "notLocated" =>
      geoOut \in {"noResultsArray", "zeroResults", "badLocation"}

\* body.text is missing, not a string, or blank
BlankText == req.text = Absent \/ \A k \in 1..Len(req.text[1]) : req.text[1][k] \in Whitespace

\* the environment variable is unset or empty
MissingKey(v) == v = Absent \/ v = Some("")

\* C12, as stated (Spec): a POST request with missing or blank text is
\* answered with status 400 whatever the credentials are.
C12_BlankTextAlways400 ==
  (req.method = "POST" /\ BlankText /\ pc # "start") =>
    /\ Len(responses) = 1
    /\ responses[1].status = 400

\* C12 (Spec): a POST request with missing or blank text is rejected at once
\* with an error response and without any external call - status 400 when
\* both credentials are configured, the status 500 configuration error when
\* one is missing.
C12_BlankTextRejected ==
  (req.method = "POST" /\ BlankText /\ pc # "start") =>
    /\ pc = "done"
    /\ issued = {}
    /\ Len(responses) = 1
    /\ responses[1].reply = NoReply
    /\ IF MissingKey(env.mapsKey) \/ MissingKey(env.openaiKey)
       THEN responses[1].status = 500 /\ responses[1].error # "Internal server error"
       ELSE /\ responses[1].status = 400
            /\ responses[1].error = "Missing 'text' in request body."

\* a whitespace-only text rejected with 400 while both keys are set
C12_Witness ==
  /\ req.method = "POST"
  /\ req.text = Some(<<" ">>)
  /\ ~MissingKey(env.mapsKey) /\ ~MissingKey(env.openaiKey)
  /\ pc = "done"
  /\ Len(responses) = 1
  /\ responses[1].status = 400

\* C13 (Spec): a request whose method is not POST gets status 405 with the
\* Allow: POST header, whatever the credentials and the body are; nothing is
\* parsed and no external call is issued.
C13_MethodNotAllowed ==
  (req.method # "POST" /\ pc # "start") =>
    /\ pc = "done"
    /\ Len(responses) = 1
    /\ responses[1].status = 405
    /\ responses[1].allow
    /\ responses[1].error = "Method Not Allowed"
    /\ responses[1].reply = NoReply
    /\ parsed = [station |-> <<>>, genre |-> <<>>]
    /\ issued = {}

\* a GET request answered with 405 although no key is set and the body has
\* no text
C13_Witness ==
  /\ req.method = "GET"
  /\ req.text = Absent
  /\ MissingKey(env.mapsKey) /\ MissingKey(env.openaiKey)
  /\ pc = "done"
  /\ Len(responses) = 1
  /\ responses[1].status = 405
  /\ responses[1].allow

\* C14 (Spec): a POST request with a missing maps key or text-generation key
\* is answered with status 500 and a message naming the missing key, not the
\* generic "Internal server error", and no external call is issued.
C14_MissingCredential ==
  (req.method = "POST" /\ pc # "start"
     /\ (MissingKey(env.mapsKey) \/ MissingKey(env.openaiKey))) =>
    /\ pc = "done"
    /\ issued = {}
    /\ Len(responses) = 1
    /\ responses[1].status = 500
    /\ responses[1].error # "Internal server error"
    /\ ~responses[1].detail
    /\ responses[1].error =
         IF MissingKey(env.mapsKey) THEN "GOOGLE_MAPS_API_KEY is not set"
         ELSE "OPENAI_API_KEY is not set"

\* a POST request with text whose text-generation key is the empty string,
\* answered with the configuration error naming that key
C14_Witness ==
  /\ req.method = "POST"
  /\ ~BlankText
  /\ env.mapsKey = Some("key")
  /\ env.openaiKey = Some("")
  /\ pc = "done"
  /\ Len(responses) = 1
  /\ responses[1].error = "OPENAI_API_KEY is not set"

\* the maximal runs of characters of s outside seps, in order (cur is the
\* run being read)
RECURSIVE Words(_, _, _)
Words(s, cur, seps) ==
  IF s = <<>> THEN (IF cur = <<>> THEN <<>> ELSE <<cur>>)
  ELSE IF s[1] \in seps
       THEN (IF cur = <<>> THEN <<>> ELSE <<cur>>) \o Words(Tail(s), <<>>, seps)
       ELSE Words(Tail(s), Append(cur, s[1]), seps)

\* the words of ws written with one space between them
RECURSIVE Spaced(_)
Spaced(ws) ==
  IF ws = <<>> THEN <<>>
  ELSE IF Len(ws) = 1 THEN ws[1]
  ELSE ws[1] \o <<" ">> \o Spaced(Tail(ws))

\* s without leading and trailing whitespace, inner whitespace runs as one space
Norm(s) == Spaced(Words(s, <<>>, Whitespace))

OrDefault(g) == IF g = <<>> THEN <<"restaurants">> ELSE g

HasComma(s) == \E k \in 1..Len(s) : s[k] = ","
FirstComma(s) == CHOOSE k \in 1..Len(s) : s[k] = "," /\ \A m \in 1..(k - 1) : s[m] # ","
BeforeComma(s) == SubSeq(s, 1, FirstComma(s) - 1)
AfterComma(s) == SubSeq(s, FirstComma(s) + 1, Len(s))

\* the non-blank comma-separated segments of s, each normalised
CommaSegments(s) ==
  LET raw == Words(s, <<>>, {","})
  IN  SelectSeq([k \in 1..Len(raw) |-> Norm(raw[k])], LAMBDA g : g # <<>>)

\* C15, as stated (SpecParse): for a text with a comma the location term is
\* the trimmed substring before the first comma - also when the text starts
\* with a comma - and the category term is what follows the first comma,
\* joined and trimmed.
C15_SplitAtFirstComma ==
  (pc = "parsed" /\ HasComma(req.text[1])) =>
    /\ parsed.station = Norm(BeforeComma(req.text[1]))
    /\ parsed.genre =
         OrDefault(Spaced(Words(AfterComma(req.text[1]), <<>>, Whitespace \cup {","})))

\* C15 (SpecParse): for a text with a comma whose part before the first comma
\* is not blank, the location term is that part trimmed and the category term
\* is the non-empty segments after the first comma, trimmed and joined by
\* single spaces ("restaurants" when there are none); when the part before
\* the first comma is blank, the location term is the first non-blank segment
\* (the whole text when every segment is blank) and the category term is
\* built from the segments after that one.
C15_CommaParse ==
  (pc = "parsed" /\ HasComma(req.text[1])) =>
    LET t    == req.text[1]
        segs == CommaSegments(t)
    IN  IF Norm(BeforeComma(t)) # <<>>
        THEN /\ parsed.station = Norm(BeforeComma(t))
             /\ parsed.genre =
                  OrDefault(Spaced(Words(AfterComma(t), <<>>, Whitespace \cup {","})))
        ELSE /\ parsed.station = IF segs = <<>> THEN Norm(t) ELSE segs[1]
             /\ parsed.genre = OrDefault(Spaced(IF segs = <<>> THEN <<>> ELSE Tail(segs)))

\* "a, ,b", a text with a blank segment between two commas, parsed to
\* location a and category b
C15_Witness ==
  /\ pc = "parsed"
  /\ req.text = Some(<<"a", ",", " ", ",", "b">>)
  /\ parsed = [station |-> <<"a">>, genre |-> <<"b">>]

\* C16 (SpecParse): for a text without a comma the location term is the first
\* whitespace-delimited token and the category term is the remaining tokens
\* joined by single spaces, "restaurants" when there is none; the category
\* term is never empty.
C16_TokenParse ==
  (pc = "parsed" /\ ~HasComma(req.text[1])) =>
    LET tokens == Words(req.text[1], <<>>, Whitespace)
    IN  /\ parsed.station = tokens[1]
        /\ parsed.genre = OrDefault(Spaced(Tail(tokens)))
        /\ parsed.genre # <<>>

\* three tokens, the last two separated by a tab
C16_Witness ==
  /\ pc = "parsed"
  /\ req.text = Some(<<"a", " ", "b", "\t", "a">>)
  /\ parsed = [station |-> <<"a">>, genre |-> <<"b", " ", "a">>]

\* the distance in metres from the origin to a destination with numeric
\* coordinates
Distance(dest) ==
  LET o == walk.origin[1].lat[1]
      d == dest[1].lat[1]
  IN  IF d >= o THEN d - o ELSE o - d

Numeric(dest) == dest # Absent /\ dest[1].lat # Absent /\ dest[1].lng # Absent

\* m is distance d at 80 metres per minute, rounded to the nearest minute
\* and clamped to 1..15
WalkMinutesOf(d, m) ==
  \E n \in 0..(d \div 80 + 1) :
    /\ 80 * n - 40 <= d
    /\ d < 80 * n + 40
    /\ m = IF n < 1 THEN 1 ELSE IF n > 15 THEN 15 ELSE n

\* C17 (SpecWalk): for a destination with numeric coordinates the walking
\* time is an integer in 1..15, equal to distance / 80 rounded to the nearest
\* integer and clamped to that range; distance 0 gives 1 and a distance of
\* 1200 metres or more gives 15.
C17_WalkMinutes ==
  (pc = "walked" /\ Numeric(walk.destA)) =>
    /\ IsNumber(walk.minsA)
    /\ walk.minsA[1] \in 1..15
    /\ WalkMinutesOf(Distance(walk.destA), walk.minsA[1])
    /\ Distance(walk.destA) = 0 => walk.minsA[1] = 1
    /\ Distance(walk.destA) >= 1200 => walk.minsA[1] = 15

\* a destination exactly 1200 metres away estimated at 15 minutes, and one
\* at the origin estimated at 1 minute
C17_Witness ==
  /\ pc = "walked"
  /\ Numeric(walk.destA) /\ Numeric(walk.destB)
  /\ Distance(walk.destA) = 1200 /\ walk.minsA = Some(15)
  /\ Distance(walk.destB) = 0 /\ walk.minsB = Some(1)

\* C18 (SpecWalk): walk-time monotonicity - of two destinations measured
\* from the same origin the nearer one never has the larger walking time.
C18_Monotone ==
  (pc = "walked" /\ Numeric(walk.destA) /\ Numeric(walk.destB)
     /\ Distance(walk.destA) < Distance(walk.destB)) =>
    /\ IsNumber(walk.minsA) /\ IsNumber(walk.minsB)
    /\ walk.minsA[1] <= walk.minsB[1]

\* two destinations on opposite sides of the origin, the nearer one with the
\* strictly smaller walking time
C18_Witness ==
  /\ pc = "walked"
  /\ Numeric(walk.destA) /\ Numeric(walk.destB)
  /\ walk.destA[1].lat[1] > walk.origin[1].lat[1]
  /\ walk.destB[1].lat[1] < walk.origin[1].lat[1]
  /\ Distance(walk.destA) < Distance(walk.destB)
  /\ walk.minsA[1] < walk.minsB[1]

\* the candidate has a destination coordinate: geometry.location with a
\* numeric lat and lng
HasCoordinate(p) ==
  p.geometry # Absent /\ p.geometry[1].lat # Absent /\ p.geometry[1].lng # Absent

\* C19 (Spec): for a shortlist entry whose destination coordinate is absent
\* or not numeric the walking time is undefined and the access text is
\* "Near <location term>"; "Approx. N min walk" appears only for an entry
\* whose destination coordinate is present.
C19_NearWithoutCoordinate ==
  PicksSent =>
    \A k \in 1..Len(chosen) :
      LET block == responses[1].reply.blocks[k]
      IN  /\ ~HasCoordinate(chosen[k]) =>
               /\ block.walkMin = Absent
               /\ block.access.form = "near"
               /\ block.access.station = parsed.station
          /\ block.access.form = "approx" =>
               /\ HasCoordinate(chosen[k])
               /\ block.access.mins # Absent

\* a reply of two entries: one without a numeric destination coordinate,
\* shown as "Near <station>", and one with a walking time
C19_Witness ==
  /\ PicksSent
  /\ Len(chosen) = 2
  /\ \E k \in 1..2 : ~HasCoordinate(chosen[k])
                        /\ responses[1].reply.blocks[k].access.form = "near"
  /\ \E k \in 1..2 : HasCoordinate(chosen[k])
                        /\ responses[1].reply.blocks[k].access.form = "approx"

\* the identifier as it reads in a link: space, comma and tab escaped
InLink(str) ==
  [k \in 1..Len(str) |->
     IF str[k] = " " THEN "%20" ELSE IF str[k] = "," THEN "%2C"
     ELSE IF str[k] = "\t" THEN "%09" ELSE str[k]]

\* the characters of a link, escape sequences taken as one item each
RECURSIVE Items(_)
Items(q) ==
  IF q = <<>> THEN <<>>
  ELSE IF q[1] = "%" THEN <<q[1] \o q[2] \o q[3]>> \o Items(SubSeq(q, 4, Len(q)))
  ELSE <<q[1]>> \o Items(Tail(q))

\* C20 (Spec): for a shortlist entry with a provider identifier the map link
\* is the identifier-keyed link for exactly that identifier; the free-text
\* link, built from the name and the locality (the location term when the
\* locality is absent), is used only when the identifier is absent.
C20_MapLink ==
  PicksSent =>
    \A k \in 1..Len(chosen) :
      LET p    == chosen[k]
          link == responses[1].reply.blocks[k].mapUrl
          has  == p.place_id # Absent /\ p.place_id[1] # <<>>
      IN  /\ has => link.form = "place_id" /\ Items(link.q) = InLink(p.place_id[1])
          /\ link.form = "text" =>
               /\ ~has
               /\ Items(link.q) =
                    InLink((IF p.name = Absent THEN UnknownRestaurant ELSE p.name[1])
                             \o <<" ">>
                             \o (IF p.vicinity = Absent THEN parsed.station
                                 ELSE p.vicinity[1])
                             \o <<" ", "J", "a", "p", "a", "n">>)

\* a reply whose first entry is linked by its identifier and whose second
\* entry, without identifier, by the free text
C20_Witness ==
  /\ PicksSent
  /\ Len(chosen) = 2
  /\ \E k \in 1..2 : /\ chosen[k].place_id # Absent
                     /\ chosen[k].place_id[1] # <<>>
                     /\ responses[1].reply.blocks[k].mapUrl.form = "place_id"
  /\ \E k \in 1..2 : /\ chosen[k].place_id = Absent
                     /\ responses[1].reply.blocks[k].mapUrl.form = "text"

\* C21 (Spec): the review-count phrase of every entry is the exact count
\* "N reviews" when the count is known and below 10 - a known count of 0
\* included -, "N+ reviews" when it is 10 or more, and "a few reviews" only
\* when the count is unknown.
C21_CountPhrase ==
  PicksSent =>
    \A k \in 1..Len(chosen) :
      LET count  == chosen[k].user_ratings_total
          phrase == responses[1].reply.blocks[k].countText
      IN  /\ (count # Absent /\ count[1] < 10) =>
               phrase = [form |-> "exact", n |-> count]
          /\ (count # Absent /\ count[1] >= 10) =>
               phrase = [form |-> "plus", n |-> count]
          /\ phrase.form = "few" => count = Absent

\* the reviews of the place-details result, none when there is no list
ReviewsGiven ==
  IF extract.details = Absent \/ extract.details[1].reviews = Absent THEN <<>>
  ELSE extract.details[1].reviews[1]

\* t is the text of a review of the result, without the whitespace around it
FromReview(t) ==
  \E k \in 1..Len(ReviewsGiven) :
    /\ ReviewsGiven[k].text # Absent
    /\ \E lead, trail \in 0..Len(ReviewsGiven[k].text[1]) :
         LET full == ReviewsGiven[k].text[1]
         IN  /\ lead + trail + Len(t) = Len(full)
             /\ SubSeq(full, lead + 1, lead + Len(t)) = t
             /\ \A j \in 1..lead : full[j] \in Whitespace
             /\ \A j \in (Len(full) - trail + 1)..Len(full) : full[j] \in Whitespace

Raised ==
  \/ geoOut \in Throwing
  \/ searchOut \in Throwing
  \/ \E k \in 1..Len(member) : member[k].detailOut \in Throwing

\* at most one response was sent, the handler has ended exactly when one was
\* sent, and a failure that raised was answered with status 500,
\* "Internal server error" and a detail string
OneResponseSoFar ==
  /\ Len(responses) <= 1
  /\ pc = "done" <=> Len(responses) = 1
  /\ Raised => responses = <<ErrorResponse(500, FALSE, "Internal server error", TRUE)>>

\* C23 (SpecLive): for every request and every collaborator behaviour the
\* handler sends exactly one response - never two, and, once its calls have
\* settled, never none; a failure that raises is caught at the top level and
\* answered with status 500 "Internal server error" and a detail string.
C23_ExactlyOneResponse ==
  /\ []OneResponseSoFar
  /\ <>[](pc = "done" /\ Len(responses) = 1)

\* one member's detail fetch raised and was answered with the internal
\* error while the other member's callback went on to its end
C23_Witness ==
  /\ Len(member) = 2
  /\ \E k \in 1..2 : member[k].st = "rejected"
  /\ \E k \in 1..2 : member[k].st = "done" /\ member[k].genOut.kind = "ok"
  /\ responses = <<InternalError>>

\* C24 (SpecSel): when at least one candidate is rated 4.0 or more, the pool
\* and the shortlist hold only candidates rated 4.0 or more; otherwise the
\* pool is drawn from the rated candidates, all of them up to the pool cap.
C24_PreferHighQuality ==
  pc = "selected" =>
    IF HighQuality(places) # {}
    THEN /\ Range(pool) \subseteq HighQuality(places)
         /\ Range(chosen) \subseteq HighQuality(places)
         /\ pool # <<>>
    ELSE /\ Range(pool) \subseteq Rated(places)
         /\ Cardinality(Rated(places)) <= 12 => Range(pool) = Rated(places)

\* candidates rated 4.0 or more next to lower-rated ones, and a shortlist
\* of high-quality candidates only
C24_Witness ==
  /\ pc = "selected"
  /\ HighQuality(places) # {}
  /\ LowerRated(places) # {}
  /\ chosen # <<>>
  /\ \A k \in 1..Len(chosen) : chosen[k].rating[1] >= 40

\* the base the pool is cut from: the candidates rated 4.0 or more when
\* there are any, the rated candidates otherwise
BaseSet == IF HighQuality(places) # {} THEN HighQuality(places) ELSE Rated(places)

CountOf(p) == IF p.user_ratings_total = Absent THEN 0 ELSE p.user_ratings_total[1]

\* p does not rank below q: higher rating, or the same rating and at least
\* as many ratings
RanksAtLeast(p, q) ==
  \/ p.rating[1] > q.rating[1]
  \/ p.rating[1] = q.rating[1] /\ CountOf(p) >= CountOf(q)

\* C25 (SpecSel): the pool is the N highest-ranked candidates of the base
\* under rating descending, ties by rating count descending (an absent count
\* as 0), where N is the smaller of 12 and the size of the base - at least 5
\* when the base has at least 5 candidates.
C25_TopOfBase ==
  pc = "selected" =>
    /\ Range(pool) \subseteq BaseSet
    /\ Len(pool) = Cardinality(Range(pool))
    /\ Len(pool) = IF Cardinality(BaseSet) < 12 THEN Cardinality(BaseSet) ELSE 12
    /\ Cardinality(BaseSet) >= 5 => Len(pool) >= 5
    /\ \A p \in Range(pool) : \A q \in BaseSet \ Range(pool) : RanksAtLeast(p, q)

\* a base of thirteen: the candidate cut off has the rating of a pool member
\* and fewer ratings
C25_Witness ==
  /\ pc = "selected"
  /\ Len(pool) = 12
  /\ \E q \in BaseSet \ Range(pool) :
       \E p \in Range(pool) : p.rating = q.rating /\ CountOf(p) > CountOf(q)

\* C26 (Spec): whatever the order in which the detail fetches and the
\* generation calls complete, the blocks of the reply are in shortlist order
\* and the insight of each block is the one generated from the reviews of
\* its own candidate (or the fallback sentence when there is none).
C26_RecombinedByIndex ==
  PicksSent =>
    /\ Len(responses[1].reply.blocks) = Len(chosen)
    /\ \A k \in 1..Len(chosen) :
         LET block == responses[1].reply.blocks[k]
         IN  /\ block.id = chosen[k].id
             /\ \/ block.insight = FallbackInsight
                \/ block.insight = <<"O", "k", " ", "y">> \o Decimal(chosen[k].id)
             /\ block.insight = FallbackInsight <=>
                  (member[k].genOut.kind # "ok" \/ GenFailed(member[k]) \/
                   member[k].genOut.content = Some(<<" ">>))

\* a reply of two blocks, each with the insight generated about its own
\* candidate
C26_Witness ==
  /\ PicksSent
  /\ Len(chosen) = 2
  /\ \A k \in 1..2 :
       responses[1].reply.blocks[k].insight = <<"O", "k", " ", "y">> \o Decimal(chosen[k].id)

\* the index in the shortlist of the candidate a call is about
MemberOf(c) == CHOOSE k \in 1..Len(chosen) : chosen[k].id = c.of

\* C27 (Spec): the stages run strictly forward - the search is issued only
\* after geocoding returned a coordinate, a detail fetch only for a member of
\* the constructed shortlist, a candidate's generation call only after its
\* own detail fetch has completed, and the response to a request that got as
\* far as enrichment only after all enrichment has completed.
C27_StagesForward ==
  /\ Call("search", 0) \in issued => Call("geocode", 0) \in issued /\ geoOut = "ok"
  /\ \A c \in issued :
       /\ c.call \in {"detail", "gen"} =>
            /\ searchOut = "ok"
            /\ \E k \in 1..Len(chosen) : chosen[k].id = c.of
       /\ c.call = "gen" =>
            /\ Call("detail", c.of) \in issued
            /\ member[MemberOf(c)].detailOut = "ok"
  /\ (responses # <<>> /\ member # <<>>) =>
       \A k \in 1..Len(member) : member[k].st \notin {"detail", "gen"}

\* how often x occurs in s
Occurrences(s, x) == Cardinality({ k \in 1..Len(s) : s[k] = x })

\* a and b hold the same elements with the same multiplicities
SameElements(a, b) ==
  /\ Len(a) = Len(b)
  /\ \A x \in Range(a) \cup Range(b) : Occurrences(a, x) = Occurrences(b, x)

\* every arrangement of the elements of s
Arrangements(s) ==
  { t \in [1..Len(s) -> Range(s)] : SameElements(t, s) }

\* C28 (SpecShuffle): shuffleInPlace ends for every array and leaves a
\* permutation of its input (same elements, same multiplicities); every
\* permutation is the outcome of some sequence of draws, so that every member
\* of a pool of more than 5 can appear in the shortlist.
C28_ShufflePermutes ==
  /\ pc = "shuffle" =>
       /\ shuffleInPlace(pool) # {}
       /\ shuffleInPlace(pool) = Arrangements(pool)
       /\ Len(pool) > 5 =>
            \A m \in Range(pool) :
              \E outcome \in shuffleInPlace(pool) :
                \E k \in 1..5 : outcome[k] = m
  /\ pc = "shuffled" =>
       /\ SameElements(pool, places)
       /\ chosen = SubSeq(pool, 1, IF Len(pool) < 5 THEN Len(pool) ELSE 5)

\* a pool of six shuffled so that its last member is the first of the
\* shortlist and its first member is left out
C28_Witness ==
  /\ pc = "shuffled"
  /\ Len(places) = 6
  /\ Len(chosen) = 5
  /\ chosen[1] = places[6]
  /\ pool[6] = places[1]

\* C29 (SpecSel): for every candidate list and every shuffle outcome the
\* shortlist is made of pairwise distinct entries of the list the search
\* returned - no entry twice, none that was not returned - and selection
\* leaves that list as it was.
C29_DistinctEntries ==
  /\ [](pc = "selected" =>
          /\ Range(chosen) \subseteq Range(places)
          /\ Range(pool) \subseteq Range(places)
          /\ \A j, k \in 1..Len(chosen) : j # k => chosen[j] # chosen[k]
          /\ \A j, k \in 1..Len(places) : j # k => places[j] # places[k])
  /\ [][places' = places]_vars

\* thirteen candidates, a shuffled pool of twelve and a shortlist of five
\* that is not the top five of the ranking
C29_Witness ==
  /\ pc = "selected"
  /\ Len(places) = 13
  /\ Len(pool) = 12
  /\ Len(chosen) = 5
  /\ chosen # SubSeq(rated(places), 1, 5)

====
